---- MODULE Spec2Model ----
(***************************************************************************)
(* The detection loop of the object-detector portal: the React hook        *)
(* useObjectDetection (src/src/hooks/useObjectDetection.ts) driving the    *)
(* singleton YOLOv5Service (src/src/services/yolov5Service.ts).            *)
(*                                                                         *)
(* The browser runs one task at a time.  Every action below is one task:   *)
(* a timer callback, a React commit (render plus passive effects), or the  *)
(* settlement of one awaited promise together with the microtasks that it  *)
(* releases.  The order of tasks is arbitrary: no timing is assumed, so    *)
(* every tick interval and every inference duration is covered.            *)
(*                                                                         *)
(* The numeric stages of the service (preprocess, postprocess,             *)
(* nonMaxSuppression, calculateIoU) are operators; each is exercised by a  *)
(* specification of its own that draws an input and applies the operator.  *)
(*                                                                         *)
(* The ObjectDetector page (src/unnamed/part_003) that mounts the hook is  *)
(* followed by a specification of its own, for its webcam start-up.        *)
(*                                                                         *)
(* Numbers: a JavaScript number is an IEEE 754 binary64 value, and the     *)
(* arithmetic of the service is carried out on such values, each operation *)
(* rounded as the language rounds it; an element of a Float32Array is the  *)
(* binary32 value nearest to what is stored in it.  Thresholds are given in*)
(* hundredths (45 is the number 0.45); the values of a raw output tensor   *)
(* are given in 64ths, binary fractions which a Float32Array holds         *)
(* exactly.  preprocess takes the target shape as a parameter and is       *)
(* exercised at small shapes in place of the 640 x 640 of                  *)
(* modelConfig.inputShape, whose buffer has 1 228 800 values.              *)
(* Of the canvas the detection set whose boxes are drawn is kept, not the  *)
(* labels drawn with them.                                                 *)
(***************************************************************************)
EXTENDS Integers, Sequences, FiniteSets, TLC

\* ---------------------------------------------------------------- bounds
\* detect calls that may be pending at once (ticks that would start one more
\* are not taken)
MaxInFlight == 2
\* distinct non-empty detection sets the engine can produce
MaxResult == 1

\* candidates in one list handed to nonMaxSuppression
MaxBoxes == 3
\* rows in one raw output tensor, and class scores a row may carry beyond
\* the length of classNames
MaxRows == 2
MaxExtra == 2
\* largest height and width of the target shape preprocess is exercised at,
\* and largest height and width of the frame
MaxTarget == 3
MaxFrame == 4
\* getUserMedia calls of the page that may be pending at once, and camera
\* streams that may be live at once
MaxRequests == 2
MaxStreams == 2
\* largest left/top coordinate and largest width/height of the boxes whose IoU
\* is computed
MaxOrigin == 1
MaxSize == 2

\* ------------------------------------------------------- program constants
\* confidenceThreshold = 0.45 (hook default), in hundredths
DefaultConfidence == 45
\* detectionInterval = 100 (hook default), milliseconds
DefaultInterval == 100
\* HTMLMediaElement.HAVE_ENOUGH_DATA, the readyState the tick asks for
HaveEnoughData == 4
\* modelConfig.iouThreshold = 0.45, in hundredths
IouThreshold == 45
\* modelConfig.scoreThreshold = 0.45, in hundredths
ScoreThreshold == 45
\* modelConfig.inputShape: batch, channels, height, width
InputShape == <<1, 3, 640, 640>>
\* modelConfig.classNames
ClassNames ==
    <<"person", "bicycle", "car", "motorcycle", "airplane", "bus", "train",
        "truck", "boat", "traffic light", "fire hydrant", "stop sign",
        "parking meter", "bench", "bird", "cat", "dog", "horse", "sheep",
        "cow", "elephant", "bear", "zebra", "giraffe", "backpack",
        "umbrella", "handbag", "tie", "suitcase", "frisbee", "skis",
        "snowboard", "sports ball", "kite", "baseball bat", "baseball glove",
        "skateboard", "surfboard", "tennis racket", "bottle", "wine glass",
        "cup", "fork", "knife", "spoon", "bowl", "banana", "apple",
        "sandwich", "orange", "broccoli", "carrot", "hot dog", "pizza",
        "donut", "cake", "chair", "couch", "potted plant", "bed",
        "dining table", "toilet", "tv", "laptop", "mouse", "remote",
        "keyboard", "cell phone", "microwave", "oven", "toaster", "sink",
        "refrigerator", "book", "clock", "vase", "scissors", "teddy bear",
        "hair drier", "toothbrush" >>
\* what reading past the end of classNames or colors gives
Undefined == "undefined"

ConfidenceValues == {DefaultConfidence, DefaultConfidence + 15}
IntervalValues == {DefaultInterval, DefaultInterval + 100}
Results == 0..MaxResult

\* what the video element can look like when a timer callback samples it
VideoStates ==
    { [readyState |-> HaveEnoughData, paused |-> FALSE, ended |-> FALSE],
      [readyState |-> 2, paused |-> FALSE, ended |-> FALSE],
      [readyState |-> HaveEnoughData, paused |-> TRUE, ended |-> FALSE],
      [readyState |-> HaveEnoughData, paused |-> FALSE, ended |-> TRUE] }
NoVideo == [readyState |-> HaveEnoughData, paused |-> FALSE, ended |-> FALSE]

\* where the frame capture of a tick can throw
CaptureOutcomes == {"ok", "drawImage", "getImageData"}

VARIABLES
    \* YOLOv5Service (one instance for the whole application)
    session,          \* 0 is null; n > 0 is the n-th session installed
    modelLoading,
    modelLoaded,
    \* pending asynchronous calls into the service, in the order they started
    calls,
    \* the hook instance
    mounted,
    props,            \* what the consumer passes in
    isModelLoaded,
    isModelLoading,
    detections,       \* 0 is [], n > 0 a non-empty detection set
    intervalRef,      \* detectionIntervalRef.current, 0 is null
    rendered,         \* the values of the last commit (what closures captured)
    cleanup,          \* the last run of the detection effect returned a cleanup
    \* the browser
    timers,           \* active interval timers with what their callback captured
    drawn,            \* the detection set whose boxes are on the canvas, 0 none
    \* observations
    loadError,        \* the hook's catch branch ran and no load was started since
    unhandled,        \* an exception left a timer callback
    event,            \* what the last task was
    \* one call of a numeric stage of the service
    fnStage,          \* "idle", "called" (input chosen) or "returned"
    fnInput,
    fnOutput,
    \* the ObjectDetector page: its state, what its last commit showed, the
    \* video element, and the getUserMedia calls and camera streams around it
    page

svcVars == <<session, modelLoading, modelLoaded, calls>>
hookVars == <<mounted, props, isModelLoaded, isModelLoading, detections,
              intervalRef, rendered, cleanup>>
browserVars == <<timers, drawn>>
obsVars == <<loadError, unhandled, event>>
fnVars == <<fnStage, fnInput, fnOutput>>
pageVars == <<page>>
vars == <<svcVars, hookVars, browserVars, obsVars, fnVars, pageVars>>

Ev(name) == [name |-> name, video |-> NoVideo]
TickEv(name, v) == [name |-> name, video |-> v]

Remove(s, i) == SubSeq(s, 1, i - 1) \o SubSeq(s, i + 1, Len(s))

\* ----------------------------------------------------------- the service

\* loadModel without its modelLoading guard
LoadModelEntryNoLoadingGuard(loaded, loading) ==
    IF loaded THEN "true" ELSE "start"

\* loadModel up to its first await: "true" and "false" are returned at once,
\* "start" begins a load
LoadModelEntry(loaded, loading) ==
    IF loaded THEN "true" ELSE IF loading THEN "false" ELSE "start"

LoadPcs == {"fetch", "create"}
LoadsInProgress(cs) == Cardinality({i \in 1..Len(cs) : cs[i].pc \in LoadPcs})
DetectCalls(cs) == {i \in 1..Len(cs) : cs[i].kind = "detect"}

\* boxes is the showBoundingBoxes the calling tick captured
HookLoadCall ==
    [kind |-> "hookLoad", pc |-> "fetch", alive |-> TRUE, stale |-> FALSE,
     boxes |-> TRUE]
DetectCall(pc, boxes) ==
    [kind |-> "detect", pc |-> pc, alive |-> TRUE, stale |-> FALSE,
     boxes |-> boxes]

\* ------------------------------------------------------- JavaScript numbers

\* A JavaScript number is an IEEE 754 binary64 value.  Every operator of the
\* language on numbers gives the exact result rounded to the nearest such
\* value, ties to the one with an even significand.  The numbers here are
\* that: a finite number is sign, significand and exponent, its value
\* (-1)^sign * mant * 2^exp with mant odd (or empty, for +0 and -0); mant is a
\* natural number written in limbs of LimbBits bits, lowest limb first, as
\* its 53 bits exceed the integers of the checker.
LimbBits == 15
LimbBase == 2 ^ LimbBits
\* A format: the bits of a significand, the exponent of the lowest bit of the
\* smallest subnormal, and the exponent above every finite value.  Binary64 is
\* that of a number, Binary32 that of an element of a Float32Array.
Binary64 == [bits |-> 53, minExp |-> 0 - 1074, maxExp |-> 1024]
Binary32 == [bits |-> 24, minExp |-> 0 - 149, maxExp |-> 128]

\* limb i of a, lowest first, 0 beyond its length
Limb(a, i) == IF i >= 1 /\ i <= Len(a) THEN a[i] ELSE 0

RECURSIVE NatTrim(_)
NatTrim(a) ==
    IF a = <<>> THEN a
    ELSE IF a[Len(a)] # 0 THEN a
    ELSE NatTrim(SubSeq(a, 1, Len(a) - 1))

NatLess(a, b) ==
    IF Len(a) # Len(b) THEN Len(a) < Len(b)
    ELSE \E i \in 1..Len(a) :
            a[i] < b[i] /\ \A j \in (i + 1)..Len(a) : a[j] = b[j]

NatAdd(a, b) ==
    LET RECURSIVE AddFrom(_, _)
        AddFrom(i, carry) ==
            IF i > Len(a) /\ i > Len(b)
            THEN (IF carry = 0 THEN <<>> ELSE <<carry>>)
            ELSE LET s == Limb(a, i) + Limb(b, i) + carry
                 IN  <<s % LimbBase>> \o AddFrom(i + 1, s \div LimbBase)
    IN  AddFrom(1, 0)

\* a - b for a >= b
NatSub(a, b) ==
    LET RECURSIVE SubFrom(_, _)
        SubFrom(i, borrow) ==
            IF i > Len(a) THEN <<>>
            ELSE LET s == a[i] - Limb(b, i) - borrow
                 IN  <<s % LimbBase>> \o SubFrom(i + 1, IF s < 0 THEN 1 ELSE 0)
    IN  NatTrim(SubFrom(1, 0))

\* a * c for a limb c
NatMulLimb(a, c) ==
    LET RECURSIVE MulFrom(_, _)
        MulFrom(i, carry) ==
            IF i > Len(a) THEN (IF carry = 0 THEN <<>> ELSE <<carry>>)
            ELSE LET p == a[i] * c + carry
                 IN  <<p % LimbBase>> \o MulFrom(i + 1, p \div LimbBase)
    IN  IF c = 0 THEN <<>> ELSE MulFrom(1, 0)

RECURSIVE NatMul(_, _)
NatMul(a, b) ==
    IF a = <<>> \/ b = <<>> THEN <<>>
    ELSE NatAdd(NatMulLimb(a, b[1]), <<0>> \o NatMul(a, Tail(b)))

\* a * 2^n
NatShl(a, n) ==
    IF a = <<>> THEN a
    ELSE [i \in 1..(n \div LimbBits) |-> 0] \o NatMulLimb(a, 2 ^ (n % LimbBits))

\* a / 2^n, rounded down
NatShr(a, n) ==
    LET w == n \div LimbBits
        b == n % LimbBits
    IN  NatTrim([i \in 1..(Len(a) - w) |->
                   (a[i + w] \div (2 ^ b))
                   + (Limb(a, i + w + 1) % (2 ^ b)) * (2 ^ (LimbBits - b))])

\* the number of bits of a: 0 for 0, else 1 + the position of the highest bit
NatBitLen(a) ==
    IF a = <<>> THEN 0
    ELSE (Len(a) - 1) * LimbBits
         + (CHOOSE k \in 1..LimbBits :
              a[Len(a)] >= 2 ^ (k - 1) /\ a[Len(a)] < 2 ^ k)

\* The quotient of a by b # 0, rounded down, and whether a remainder is left.
\* Long division, a limb of the quotient at a time from the highest limb j of
\* the dividend down, rem being what is left of the limbs above j and cur
\* that with limb j below it.  For a divisor of one limb each step is a
\* division of integers.  Otherwise both are first shifted (n, d), so that the
\* highest bit of d is the highest bit of its highest limb; the limb of the
\* quotient is then at most 2 below the estimate made from the two highest
\* limbs of cur, and is found by lowering est while p = est * d is above cur.
NatDiv(a, b) ==
    LET m == Len(b)
        RECURSIVE DivLimbFrom(_, _, _)
        DivLimbFrom(j, rem, quo) ==
            IF j = 0 THEN [quo |-> NatTrim(quo), inexact |-> rem # 0]
            ELSE DivLimbFrom(j - 1, (rem * LimbBase + a[j]) % b[1],
                             <<(rem * LimbBase + a[j]) \div b[1]>> \o quo)
        Estimate(d, cur) ==
            IF (Limb(cur, m + 1) * LimbBase + Limb(cur, m)) \div d[m] < LimbBase
            THEN (Limb(cur, m + 1) * LimbBase + Limb(cur, m)) \div d[m]
            ELSE LimbBase - 1
        RECURSIVE DivFrom(_, _, _, _, _)
        RECURSIVE Lower(_, _, _, _, _, _, _)
        Lower(n, d, j, quo, cur, est, p) ==
            IF NatLess(cur, p)
            THEN Lower(n, d, j, quo, cur, est - 1, NatSub(p, d))
            ELSE DivFrom(n, d, j - 1, NatSub(cur, p), <<est>> \o quo)
        Step(n, d, j, quo, cur) ==
            Lower(n, d, j, quo, cur, Estimate(d, cur),
                  NatMulLimb(d, Estimate(d, cur)))
        DivFrom(n, d, j, rem, quo) ==
            IF j = 0 THEN [quo |-> NatTrim(quo), inexact |-> rem # <<>>]
            ELSE Step(n, d, j, quo, NatTrim(<<n[j]>> \o rem))
        Shifted(n, d) == DivFrom(n, d, Len(n), <<>>, <<>>)
    IN  IF m = 1 THEN DivLimbFrom(Len(a), 0, <<>>)
        ELSE Shifted(NatShl(a, LimbBits - (NatBitLen(b) - (m - 1) * LimbBits)),
                     NatShl(b, LimbBits - (NatBitLen(b) - (m - 1) * LimbBits)))

NaN == [kind |-> "nan", sign |-> 0, mant |-> <<>>, exp |-> 0]
Infinity(sign) == [kind |-> "inf", sign |-> sign, mant |-> <<>>, exp |-> 0]
Zero(sign) == [kind |-> "num", sign |-> sign, mant |-> <<>>, exp |-> 0]
IsNaN(a) == a.kind = "nan"
IsZero(a) == a.kind = "num" /\ a.mant = <<>>

\* (-1)^sign * mant * 2^exp, its significand made odd
Canonical(sign, mant, exp) ==
    LET w == CHOOSE i \in 1..Len(mant) :
                 mant[i] # 0 /\ \A j \in 1..(i - 1) : mant[j] = 0
        z == (w - 1) * LimbBits
             + (CHOOSE k \in 0..(LimbBits - 1) :
                  mant[w] % (2 ^ k) = 0 /\ mant[w] % (2 ^ (k + 1)) # 0)
    IN  IF mant = <<>> THEN Zero(sign)
        ELSE IF mant[1] % 2 = 1
        THEN [kind |-> "num", sign |-> sign, mant |-> mant, exp |-> exp]
        ELSE [kind |-> "num", sign |-> sign, mant |-> NatShr(mant, z),
              exp |-> exp + z]

\* The value of the format nearest to (-1)^sign * (n + f) * 2^exp, with
\* 0 <= f < 1 and f # 0 exactly if sticky: the bits of n below the highest
\* format.bits (and below format.minExp) are dropped, and the result goes up
\* when they and f are more than half a unit of the last bit kept, or half a
\* unit and that bit is odd; a result beyond the largest finite value is an
\* infinity.  With sticky, n has more than format.bits bits.
RoundTo(format, sign, n, sticky, exp) ==
    LET over == NatBitLen(n) - format.bits
        drop == IF over >= format.minExp - exp THEN over
                ELSE format.minExp - exp
        kept == NatShr(n, drop)
        Bit(a, k) ==
            (Limb(a, (k \div LimbBits) + 1) \div (2 ^ (k % LimbBits))) % 2
        below ==
            \/ \E i \in 1..Len(n) : i <= (drop - 1) \div LimbBits /\ n[i] # 0
            \/ Limb(n, ((drop - 1) \div LimbBits) + 1)
                 % (2 ^ ((drop - 1) % LimbBits)) # 0
        up == Bit(n, drop - 1) = 1 /\ (sticky \/ below \/ Bit(kept, 0) = 1)
        Finite(r) ==
            IF NatBitLen(r.mant) + r.exp > format.maxExp THEN Infinity(sign)
            ELSE r
    IN  IF drop <= 0 THEN Finite(Canonical(sign, n, exp))
        ELSE Finite(Canonical(sign, IF up THEN NatAdd(kept, <<1>>) ELSE kept,
                              exp + drop))

\* the rounding of every operator on numbers
Round(sign, n, sticky, exp) == RoundTo(Binary64, sign, n, sticky, exp)

\* the number that an element of a Float32Array holds after a is stored in it
Fround(a) ==
    IF a.kind # "num" THEN a
    ELSE RoundTo(Binary32, a.sign, a.mant, FALSE, a.exp)

\* an integer of the checker as a number
NumFromInt(n) ==
    LET RECURSIVE Limbs(_)
        Limbs(k) ==
            IF k = 0 THEN <<>> ELSE <<k % LimbBase>> \o Limbs(k \div LimbBase)
    IN  IF n >= 0 THEN Canonical(0, Limbs(n), 0)
        ELSE Canonical(1, Limbs(0 - n), 0)

\* a * b
NumMul(a, b) ==
    LET sign == (a.sign + b.sign) % 2
    IN  IF IsNaN(a) \/ IsNaN(b) THEN NaN
        ELSE IF a.kind = "inf" \/ b.kind = "inf"
        THEN (IF IsZero(a) \/ IsZero(b) THEN NaN ELSE Infinity(sign))
        ELSE Round(sign, NatMul(a.mant, b.mant), FALSE, a.exp + b.exp)

\* a / b: the significand of a is shifted so that the quotient of the
\* significands has Binary64.bits + 2 or + 3 bits
NumDiv(a, b) ==
    LET sign == (a.sign + b.sign) % 2
        shift == Binary64.bits + 2 - (NatBitLen(a.mant) - NatBitLen(b.mant))
        Rounded(q) == Round(sign, q.quo, q.inexact, a.exp - b.exp - shift)
    IN  IF IsNaN(a) \/ IsNaN(b) THEN NaN
        ELSE IF a.kind = "inf"
        THEN (IF b.kind = "inf" THEN NaN ELSE Infinity(sign))
        ELSE IF b.kind = "inf" THEN Zero(sign)
        ELSE IF IsZero(b) THEN (IF IsZero(a) THEN NaN ELSE Infinity(sign))
        ELSE IF IsZero(a) THEN Zero(sign)
        ELSE Rounded(NatDiv(NatShl(a.mant, shift), b.mant))

\* a + b.  For finite a and b other than 0, gap is how far the highest bit of
\* a is above that of b, and Sum adds (-1)^a.sign * x and (-1)^b.sign * y,
\* both in units of 2^exp.  Up to Binary64.bits + 2 either way x and y are the
\* significands brought to one exponent; beyond, the lesser is a fraction of
\* the unit of the greater, whose significand is shifted to Binary64.bits + 2
\* bits: the sum is that much above it, or that much above the unit below it.
NumAdd(a, b) ==
    LET gap == (NatBitLen(a.mant) + a.exp) - (NatBitLen(b.mant) + b.exp)
        far == Binary64.bits + 2
        exp == IF a.exp <= b.exp THEN a.exp ELSE b.exp
        Less == IF a.sign = b.sign THEN <<>> ELSE <<1>>
        Sum(x, y, sticky, e) ==
            IF a.sign # b.sign /\ x = y THEN Zero(0)
            ELSE Round(IF a.sign # b.sign /\ NatLess(x, y) THEN b.sign
                       ELSE a.sign,
                       IF a.sign = b.sign THEN NatAdd(x, y)
                       ELSE IF NatLess(x, y) THEN NatSub(y, x)
                       ELSE NatSub(x, y),
                       sticky, e)
    IN  IF IsNaN(a) \/ IsNaN(b) THEN NaN
        ELSE IF a.kind = "inf"
        THEN (IF b.kind = "inf" /\ b.sign # a.sign THEN NaN ELSE a)
        ELSE IF b.kind = "inf" THEN b
        ELSE IF IsZero(a) /\ IsZero(b)
        THEN Zero(IF a.sign = 1 /\ b.sign = 1 THEN 1 ELSE 0)
        ELSE IF IsZero(a) THEN b
        ELSE IF IsZero(b) THEN a
        ELSE IF gap > far
        THEN Sum(NatShl(a.mant, far - NatBitLen(a.mant)), Less, TRUE,
                 a.exp - (far - NatBitLen(a.mant)))
        ELSE IF 0 - gap > far
        THEN Sum(Less, NatShl(b.mant, far - NatBitLen(b.mant)), TRUE,
                 b.exp - (far - NatBitLen(b.mant)))
        ELSE Sum(NatShl(a.mant, a.exp - exp), NatShl(b.mant, b.exp - exp),
                 FALSE, exp)

\* a - b
NumSub(a, b) ==
    NumAdd(a, IF IsNaN(b) THEN b ELSE [b EXCEPT !.sign = 1 - b.sign])

\* a < b.  For finite a and b other than 0 of one sign the magnitudes are
\* compared by the position of the highest bit, then by the significands
\* brought to one exponent.
NumLess(a, b) ==
    LET MagnitudeLess(c, d) ==
            LET tc == NatBitLen(c.mant) + c.exp
                td == NatBitLen(d.mant) + d.exp
                exp == IF c.exp <= d.exp THEN c.exp ELSE d.exp
            IN  IF tc # td THEN tc < td
                ELSE NatLess(NatShl(c.mant, c.exp - exp),
                             NatShl(d.mant, d.exp - exp))
    IN  IF IsNaN(a) \/ IsNaN(b) THEN FALSE
        ELSE IF a.kind = "inf"
        THEN a.sign = 1 /\ ~(b.kind = "inf" /\ b.sign = 1)
        ELSE IF b.kind = "inf" THEN b.sign = 0
        ELSE IF IsZero(a) THEN ~IsZero(b) /\ b.sign = 0
        ELSE IF IsZero(b) THEN a.sign = 1
        ELSE IF a.sign # b.sign THEN a.sign = 1
        ELSE IF a.sign = 0 THEN MagnitudeLess(a, b)
        ELSE MagnitudeLess(b, a)
\* a <= b
NumLeq(a, b) == ~IsNaN(a) /\ ~IsNaN(b) /\ ~NumLess(b, a)
\* a > b
NumGreater(a, b) == NumLess(b, a)

\* Math.min(a, b) and Math.max(a, b): NaN if either is, and -0 below +0
NumMin(a, b) ==
    IF IsNaN(a) \/ IsNaN(b) THEN NaN
    ELSE IF NumLess(a, b) THEN a
    ELSE IF NumLess(b, a) THEN b
    ELSE IF a.sign = 1 THEN a ELSE b
NumMax(a, b) ==
    IF IsNaN(a) \/ IsNaN(b) THEN NaN
    ELSE IF NumLess(a, b) THEN b
    ELSE IF NumLess(b, a) THEN a
    ELSE IF a.sign = 0 THEN a ELSE b

\* rounding to the next integer up
NumCeil(a) ==
    IF a.kind # "num" \/ a.exp >= 0 THEN a
    ELSE LET whole == NatShr(a.mant, 0 - a.exp)
         IN  IF a.sign = 1 THEN Canonical(1, whole, 0)
             ELSE Canonical(0, NatAdd(whole, <<1>>), 0)

\* Math.floor(a)
NumFloor(a) ==
    IF a.kind # "num" \/ a.exp >= 0 THEN a
    ELSE LET whole == NatShr(a.mant, 0 - a.exp)
         IN  IF a.sign = 0 THEN Canonical(0, whole, 0)
             ELSE Canonical(1, NatAdd(whole, <<1>>), 0)

\* a whole number of array positions below len: what indexes an array of
\* that length
IsIndex(a, len) ==
    /\ a.kind = "num" /\ a.exp >= 0 /\ (a.sign = 0 \/ IsZero(a))
    /\ NumLess(a, NumFromInt(len))
\* the integer of the checker that an index is
NumToInt(a) ==
    LET RECURSIVE Value(_)
        Value(m) == IF m = <<>> THEN 0 ELSE m[1] + LimbBase * Value(Tail(m))
    IN  Value(NatShl(a.mant, a.exp))

\* the number written t / 100 in decimal: 0.45 for 45
Hundredths(t) == NumDiv(NumFromInt(t), NumFromInt(100))

\* ------------------------------------------- calculateIoU, nonMaxSuppression

UnionArea(box1Area, box2Area, intersectArea) ==
    NumSub(NumAdd(box1Area, box2Area), intersectArea)

\* boxes are <<x, y, width, height>>, four numbers
CalculateIoU(box1, box2) ==
    LET x1 == box1[1]
        y1 == box1[2]
        w1 == box1[3]
        h1 == box1[4]
        x2 == box2[1]
        y2 == box2[2]
        w2 == box2[3]
        h2 == box2[4]
        box1Right == NumAdd(x1, w1)
        box1Bottom == NumAdd(y1, h1)
        box2Right == NumAdd(x2, w2)
        box2Bottom == NumAdd(y2, h2)
        intersectLeft == NumMax(x1, x2)
        intersectTop == NumMax(y1, y2)
        intersectRight == NumMin(box1Right, box2Right)
        intersectBottom == NumMin(box1Bottom, box2Bottom)
        intersectArea == NumMul(NumSub(intersectRight, intersectLeft),
                                NumSub(intersectBottom, intersectTop))
        unionArea == UnionArea(NumMul(w1, h1), NumMul(w2, h2), intersectArea)
    IN  IF NumLess(intersectRight, intersectLeft)
           \/ NumLess(intersectBottom, intersectTop)
        THEN Zero(0)
        ELSE NumDiv(intersectArea, unionArea)

\* The comparator of the sort, (a, b) => b.confidence - a.confidence, is
\* positive: a is to come after b.
ComesAfter(a, b) ==
    LET d == NumSub(b.confidence, a.confidence)
    IN  d.kind # "nan" /\ d.sign = 0 /\ ~IsZero(d)

\* a sort that puts the lowest confidence first
RECURSIVE SortAscending(_)
SortAscending(boxes) ==
    IF boxes = <<>> THEN <<>>
    ELSE LET front == SortAscending(SubSeq(boxes, 1, Len(boxes) - 1))
             b == boxes[Len(boxes)]
             k == Cardinality({i \in 1..Len(front) : ~ComesAfter(b, front[i])})
         IN  SubSeq(front, 1, k) \o <<b>> \o SubSeq(front, k + 1, Len(front))

\* a descending sort that puts a candidate before those of equal confidence
\* that came before it
RECURSIVE SortTiesReversed(_)
SortTiesReversed(boxes) ==
    IF boxes = <<>> THEN <<>>
    ELSE LET front == SortTiesReversed(SubSeq(boxes, 1, Len(boxes) - 1))
             b == boxes[Len(boxes)]
             k == Cardinality({i \in 1..Len(front) : ComesAfter(b, front[i])})
         IN  SubSeq(front, 1, k) \o <<b>> \o SubSeq(front, k + 1, Len(front))

\* boxes.sort((a, b) => b.confidence - a.confidence): descending and stable
RECURSIVE SortByConfidence(_)
SortByConfidence(boxes) ==
    IF boxes = <<>> THEN <<>>
    ELSE LET front == SortByConfidence(SubSeq(boxes, 1, Len(boxes) - 1))
             b == boxes[Len(boxes)]
             k == Cardinality({i \in 1..Len(front) : ~ComesAfter(front[i], b)})
         IN  SubSeq(front, 1, k) \o <<b>> \o SubSeq(front, k + 1, Len(front))

\* a comparison that lets any two candidates compete
SameClassAlways(a, b) == TRUE

\* only boxes of the same class are compared
SameClass(a, b) == a.label = b.label

\* an inner loop that looks at the next candidate only
MarkOverlapsNextOnly(boxes, i, isSelected, iouThreshold) ==
    [j \in 1..Len(boxes) |->
       IF j = i + 1 /\ ~isSelected[j] /\ boxes[i].label = boxes[j].label
          /\ NumGreater(CalculateIoU(boxes[i].box, boxes[j].box), iouThreshold)
       THEN TRUE ELSE isSelected[j]]

\* the inner loop for the kept candidate i: every later candidate of its class
\* that overlaps it by more than the threshold is marked
MarkOverlaps(boxes, i, isSelected, iouThreshold) ==
    [j \in 1..Len(boxes) |->
       IF j > i /\ ~isSelected[j] /\ SameClass(boxes[i], boxes[j])
          /\ NumGreater(CalculateIoU(boxes[i].box, boxes[j].box), iouThreshold)
       THEN TRUE ELSE isSelected[j]]

\* the outer loop from index i on
RECURSIVE SelectFrom(_, _, _, _, _)
SelectFrom(boxes, i, isSelected, selectedBoxes, iouThreshold) ==
    IF i > Len(boxes) THEN selectedBoxes
    ELSE IF isSelected[i]
    THEN SelectFrom(boxes, i + 1, isSelected, selectedBoxes, iouThreshold)
    ELSE SelectFrom(boxes, i + 1,
                    MarkOverlaps(boxes, i, [isSelected EXCEPT ![i] = TRUE],
                                 iouThreshold),
                    Append(selectedBoxes, boxes[i]), iouThreshold)

\* iouThreshold is a number
NonMaxSuppression(boxes, iouThreshold) ==
    LET sorted == SortByConfidence(boxes)
    IN  SelectFrom(sorted, 1, [j \in 1..Len(sorted) |-> FALSE], <<>>, iouThreshold)

\* ------------------------------------------------------------- preprocess

\* a pixel position for data with three bytes a pixel
OrigPosRgb(origX, origY, imgWidth) ==
    NumMul(NumAdd(NumMul(origY, NumFromInt(imgWidth)), origX), NumFromInt(3))

\* (origY * imgWidth + origX) * 4
OrigPos(origX, origY, imgWidth) ==
    NumMul(NumAdd(NumMul(origY, NumFromInt(imgWidth)), origX), NumFromInt(4))

\* imgData[pos] / 255.0 for pos = origPos + c; a read at what is no index of
\* the array gives undefined, and undefined / 255.0 is NaN
ByteOver255(imgData, origPos, c) ==
    LET pos == NumAdd(origPos, NumFromInt(c))
    IN  IF IsIndex(pos, Len(imgData))
        THEN NumDiv(NumFromInt(imgData[NumToInt(pos) + 1]), NumFromInt(255))
        ELSE NaN

\* the scalars computed before the loops
ResizeRatio(imageData, shape) ==
    NumMin(NumDiv(NumFromInt(shape[4]), NumFromInt(imageData.width)),
           NumDiv(NumFromInt(shape[3]), NumFromInt(imageData.height)))
ResizedWidth(imageData, shape) ==
    NumFloor(NumMul(NumFromInt(imageData.width), ResizeRatio(imageData, shape)))
ResizedHeight(imageData, shape) ==
    NumFloor(NumMul(NumFromInt(imageData.height), ResizeRatio(imageData, shape)))
\* (size - resized) / 2
Offset(size, resized) == NumDiv(NumSub(NumFromInt(size), resized), NumFromInt(2))
OffsetX(imageData, shape) == Offset(shape[4], ResizedWidth(imageData, shape))
OffsetY(imageData, shape) == Offset(shape[3], ResizedHeight(imageData, shape))
\* the five of them, as the loops see them
Scalars(imageData, shape) ==
    [resizeRatio |-> ResizeRatio(imageData, shape),
     resizedWidth |-> ResizedWidth(imageData, shape),
     resizedHeight |-> ResizedHeight(imageData, shape),
     offsetX |-> OffsetX(imageData, shape),
     offsetY |-> OffsetY(imageData, shape)]

\* v >= offset && v < offset + resized
Within(v, offset, resized) ==
    /\ NumLeq(offset, NumFromInt(v))
    /\ NumLess(NumFromInt(v), NumAdd(offset, resized))

\* isInside for target pixel (x, y), s being the scalars
IsInside(s, x, y) ==
    /\ Within(x, s.offsetX, s.resizedWidth)
    /\ Within(y, s.offsetY, s.resizedHeight)

\* Math.floor((v - offset) / resizeRatio)
Orig(v, offset, resizeRatio) ==
    NumFloor(NumDiv(NumSub(NumFromInt(v), offset), resizeRatio))
OrigX(s, x) == Orig(x, s.offsetX, s.resizeRatio)
OrigY(s, y) == Orig(y, s.offsetY, s.resizeRatio)

\* what the element at plane c of target pixel (x, y) holds after the loop
\* body has written to it
PlaneValue(imageData, s, c, x, y) ==
    IF IsInside(s, x, y)
    THEN Fround(ByteOver255(imageData.data,
                            OrigPos(OrigX(s, x), OrigY(s, y), imageData.width),
                            c))
    ELSE Zero(0)

\* an index that interleaves the channels of a pixel
PlaneIndexInterleaved(c, y, x, height, width) == (y * width + x) * 3 + c

\* c * height * width + y * width + x, the index written for plane c of
\* target pixel (x, y)
PlaneIndex(c, y, x, height, width) == c * height * width + y * width + x

\* preprocess: the buffer returned, and whether the call threw instead (no
\* statement of it throws).  The buffer starts as zeros; the loops write planes
\* 0, 1, 2 of every target pixel, rows first; an element holds the last value
\* written to its index.
Preprocess(imageData, shape) ==
    LET height == shape[3]
        width == shape[4]
        s == Scalars(imageData, shape)
        Writes(k) ==
            {w \in (0..(height - 1)) \X (0..(width - 1)) \X (0..2) :
               PlaneIndex(w[3], w[1], w[2], height, width) = k}
        Order(w) == (w[1] * width + w[2]) * 3 + w[3]
        Last(ws) == CHOOSE w \in ws : \A v \in ws : Order(v) <= Order(w)
    IN  [threw |-> FALSE,
         inputData |->
           [k \in 1..(shape[1] * shape[2] * height * width) |->
              IF Writes(k - 1) = {} THEN Zero(0)
              ELSE LET w == Last(Writes(k - 1))
                   IN  PlaneValue(imageData, s, w[3], w[2], w[1])]]

\* ------------------------------------------------------------ postprocess

\* The tensor is a Float32Array.  An element of it is written here as a whole
\* number of units: the raw x, y, w, h of a row in units of 1 / CoordUnit, its
\* objectness and class scores in units of 1 / ScoreUnit.  These are values a
\* Float32Array holds exactly.
CoordUnit == 64
ScoreUnit == 64

\* the number that the element v, in units of 1 / unit, is
Float32(v, unit) == NumDiv(NumFromInt(v), NumFromInt(unit))

\* predictions[k], k counted from 0, in its unit
At(predictions, k) == predictions[k + 1]

\* The loop over the class scores j = 5 .. dimensions - 1, which starts from
\* maxClassScore = 0, maxClassIndex = 0 and moves on a strictly greater score:
\* it ends with the largest score above 0 and the first index that holds it, or
\* with (0, 0) when no score is above 0.  The scores are compared in their
\* unit.
MaxClass(predictions, baseOffset, dimensions) ==
    LET above == {j \in 5..(dimensions - 1) : At(predictions, baseOffset + j) > 0}
        top == CHOOSE j \in above :
                 \A k \in above :
                    \/ At(predictions, baseOffset + j) > At(predictions, baseOffset + k)
                    \/ /\ At(predictions, baseOffset + j) = At(predictions, baseOffset + k)
                       /\ j <= k
    IN  IF above = {} THEN [maxClassScore |-> 0, maxClassIndex |-> 0]
        ELSE [maxClassScore |-> At(predictions, baseOffset + top),
              maxClassIndex |-> top - 5]

\* confidence > confidenceThreshold
PassesObjectness(confidence, confidenceThreshold) ==
    NumGreater(confidence, confidenceThreshold)

\* a second filter that also lets a combined score equal to the threshold through
PassesCombinedOrEqual(combinedScore, confidenceThreshold) ==
    NumLeq(confidenceThreshold, combinedScore)

\* combinedScore > confidenceThreshold
PassesCombined(combinedScore, confidenceThreshold) ==
    NumGreater(combinedScore, confidenceThreshold)

\* v * modelDim * imageScale with imageScale = imgDim / modelDim: the quotient
\* is rounded, then each of the two products, from the left
Scaled(v, modelDim, imgDim) ==
    LET imageScale == NumDiv(NumFromInt(imgDim), NumFromInt(modelDim))
    IN  NumMul(NumMul(v, NumFromInt(modelDim)), imageScale)

ClassName(maxClassIndex) ==
    IF maxClassIndex + 1 <= Len(ClassNames) THEN ClassNames[maxClassIndex + 1]
    ELSE Undefined

\* this.colors[maxClassIndex]: the colours are drawn at random at construction,
\* one per class name; <<i>> stands for the i-th of them
Color(maxClassIndex) ==
    IF maxClassIndex + 1 <= Len(ClassNames) THEN <<maxClassIndex>> ELSE <<>>

\* the body of the loop for row i: the detection pushed, if any;
\* confidenceThreshold is a number
ProcessRow(predictions, i, dimensions, imgWidth, imgHeight, confidenceThreshold) ==
    LET baseOffset == i * dimensions
        confidence == Float32(At(predictions, baseOffset + 4), ScoreUnit)
        best == MaxClass(predictions, baseOffset, dimensions)
        combinedScore == NumMul(confidence, Float32(best.maxClassScore, ScoreUnit))
        modelWidth == InputShape[4]
        modelHeight == InputShape[3]
        x == Scaled(Float32(At(predictions, baseOffset), CoordUnit),
                    modelWidth, imgWidth)
        y == Scaled(Float32(At(predictions, baseOffset + 1), CoordUnit),
                    modelHeight, imgHeight)
        width == Scaled(Float32(At(predictions, baseOffset + 2), CoordUnit),
                        modelWidth, imgWidth)
        height == Scaled(Float32(At(predictions, baseOffset + 3), CoordUnit),
                         modelHeight, imgHeight)
        left == NumSub(x, NumDiv(width, NumFromInt(2)))
        top == NumSub(y, NumDiv(height, NumFromInt(2)))
    IN  IF PassesObjectness(confidence, confidenceThreshold)
           /\ PassesCombined(combinedScore, confidenceThreshold)
        THEN << [box |-> <<left, top, width, height>>,
                 label |-> ClassName(best.maxClassIndex),
                 confidence |-> combinedScore,
                 color |-> Color(best.maxClassIndex)] >>
        ELSE <<>>

\* the results array after the rows from i on
RECURSIVE ProcessRows(_, _, _, _, _, _, _)
ProcessRows(predictions, i, numDetections, dimensions, imgWidth, imgHeight, confidenceThreshold) ==
    IF i >= numDetections THEN <<>>
    ELSE ProcessRow(predictions, i, dimensions, imgWidth, imgHeight,
                    confidenceThreshold)
         \o ProcessRows(predictions, i + 1, numDetections, dimensions, imgWidth,
                        imgHeight, confidenceThreshold)

\* postprocess: results is the array before suppression, returned the value
\* handed back
Postprocess(output, imgWidth, imgHeight, confidenceThreshold) ==
    IF Len(output) = 0 THEN [results |-> <<>>, returned |-> <<>>]
    ELSE LET results == ProcessRows(output[1].data, 0, output[1].dims[2],
                                    output[1].dims[3], imgWidth, imgHeight,
                                    confidenceThreshold)
         IN  [results |-> results,
              returned |-> NonMaxSuppression(results, Hundredths(IouThreshold))]

\* ------------------------------------------------------------- the hook

DefaultProps ==
    [isDetecting |-> FALSE, confidenceThreshold |-> DefaultConfidence,
     showBoundingBoxes |-> TRUE, showLabels |-> TRUE,
     detectionInterval |-> DefaultInterval]

NotRendered ==
    [valid |-> FALSE, isDetecting |-> FALSE, isModelLoaded |-> FALSE,
     isModelLoading |-> FALSE, confidenceThreshold |-> DefaultConfidence,
     showBoundingBoxes |-> TRUE, showLabels |-> TRUE,
     detectionInterval |-> DefaultInterval]

\* the values a render now would capture
Current ==
    [valid |-> TRUE, isDetecting |-> props.isDetecting,
     isModelLoaded |-> isModelLoaded, isModelLoading |-> isModelLoading,
     confidenceThreshold |-> props.confidenceThreshold,
     showBoundingBoxes |-> props.showBoundingBoxes,
     showLabels |-> props.showLabels,
     detectionInterval |-> props.detectionInterval]

\* what the hook returns to its consumer
HookReturn ==
    [detections |-> detections, isModelLoaded |-> isModelLoaded,
     isModelLoading |-> isModelLoading]

\* the status the consumer derives from the returned object
ModelStatus ==
    LET ret == HookReturn
        modelLoadError == IF "modelLoadError" \in DOMAIN ret
                          THEN ret["modelLoadError"] ELSE FALSE
    IN  IF ret.isModelLoaded THEN "loaded"
        ELSE IF ret.isModelLoading THEN "loading"
        ELSE IF modelLoadError THEN "error"
        ELSE "notLoaded"

\* the guard of the load effect
LoadEffectRuns(r) == ~r.isModelLoaded /\ ~r.isModelLoading

\* a readiness guard that forgets the paused flag
FrameReadyIgnoresPaused(v) == ~(v.readyState # HaveEnoughData \/ v.ended)

\* the guard of the tick: the frame source is ready
FrameReady(v) == ~(v.readyState # HaveEnoughData \/ v.paused \/ v.ended)

\* the statements of the tick callback that the try block encloses
TryPoints == {"drawImage", "getImageData", "detect"}

\* a try block that ends before the awaited detect call
CaughtCaptureOnly(point) == point \in {"drawImage", "getImageData"}

Caught(point) == point \in TryPoints

ClearInterval(ts, id) == {t \in ts : t.id # id}

\* a cleanup that forgets the timer without clearing it
EffectCleanupLeaks(ts, ref) == [timers |-> ts, ref |-> 0]

\* the cleanup the detection effect returns
EffectCleanup(ts, ref) ==
    IF ref # 0 THEN [timers |-> ClearInterval(ts, ref), ref |-> 0]
    ELSE [timers |-> ts, ref |-> ref]

\* the detection effect wants to schedule: none of its early returns is taken
EffectSchedules(r, elems, ctxOk) ==
    r.isDetecting /\ r.isModelLoaded /\ elems /\ ctxOk

\* What window.setInterval returns: an id that no active timer has and that the
\* hook does not hold.  Ids are only compared with each other, so the smallest
\* such id stands for whichever the browser returns.
TimerIdsInUse == {t.id : t \in timers} \cup {intervalRef}
FreshTimerId ==
    CHOOSE id \in 1..(Cardinality(timers) + 2) :
       id \notin TimerIdsInUse /\ \A k \in 1..(id - 1) : k \in TimerIdsInUse

\* one run of the detection effect for render r, after the previous cleanup;
\* id is what window.setInterval returns if the effect calls it
DetectionEffect(r, elems, ctxOk, id) ==
    LET pre == IF cleanup THEN EffectCleanup(timers, intervalRef)
               ELSE [timers |-> timers, ref |-> intervalRef]
        cleared == IF pre.ref # 0 THEN ClearInterval(pre.timers, pre.ref)
                   ELSE pre.timers
    IN  IF ~r.isDetecting \/ ~r.isModelLoaded \/ ~elems
        THEN [timers |-> cleared, ref |-> 0, cleanup |-> FALSE, drawn |-> drawn]
        ELSE IF ~ctxOk
        THEN [timers |-> pre.timers, ref |-> pre.ref, cleanup |-> FALSE,
              drawn |-> drawn]
        ELSE [timers |-> cleared \cup
                         {[id |-> id, conf |-> r.confidenceThreshold,
                           boxes |-> r.showBoundingBoxes,
                           labels |-> r.showLabels,
                           interval |-> r.detectionInterval]},
              ref |-> id, cleanup |-> TRUE, drawn |-> 0]

\* the service as constructed and no hook mounted
LoopInit ==
    /\ session = 0 /\ modelLoading = FALSE /\ modelLoaded = FALSE
    /\ calls = <<>>
    /\ mounted = FALSE /\ props = DefaultProps
    /\ isModelLoaded = FALSE /\ isModelLoading = FALSE /\ detections = 0
    /\ intervalRef = 0 /\ rendered = NotRendered /\ cleanup = FALSE
    /\ timers = {} /\ drawn = 0
    /\ loadError = FALSE /\ unhandled = FALSE /\ event = Ev("init")

\* no numeric stage is being exercised
FnIdle == fnStage = "idle" /\ fnInput = <<>> /\ fnOutput = <<>>

\* the page as its useState and useRef calls initialise it, not mounted: no
\* getUserMedia call pending, no camera stream live
NoPage ==
    [mounted |-> FALSE,
     isDetecting |-> FALSE, hasWebcamPermission |-> FALSE, webcamActive |-> FALSE,
     confidenceThreshold |-> DefaultConfidence, showBoundingBoxes |-> TRUE,
     showLabels |-> TRUE, detectionInterval |-> DefaultInterval,
     isModelLoaded |-> FALSE, isModelLoading |-> FALSE,
     shown |-> [webcamActive |-> FALSE, isModelLoaded |-> FALSE,
                isModelLoading |-> FALSE, isDetecting |-> FALSE],
     srcObject |-> FALSE, onloadedmetadata |-> FALSE,
     requests |-> <<>>, streams |-> 0, event |-> "closed"]

PageClosed == page = NoPage

Init == LoopInit /\ FnIdle /\ PageClosed

\* the consumer mounts the hook: first render, effects still to run
Mount ==
    /\ ~mounted
    /\ mounted' = TRUE
    /\ \E d \in BOOLEAN, c \in ConfidenceValues, b \in BOOLEAN, l \in BOOLEAN,
          n \in IntervalValues :
         props' = [isDetecting |-> d, confidenceThreshold |-> c,
                   showBoundingBoxes |-> b, showLabels |-> l,
                   detectionInterval |-> n]
    /\ isModelLoaded' = FALSE /\ isModelLoading' = FALSE /\ detections' = 0
    /\ intervalRef' = 0 /\ rendered' = NotRendered /\ cleanup' = FALSE
    /\ drawn' = 0
    /\ loadError' = FALSE
    /\ event' = Ev("mount")
    /\ UNCHANGED <<svcVars, timers, unhandled>>

\* the consumer unmounts the hook: the detection effect's cleanup runs; calls
\* still pending keep running but their setState calls reach nothing and what
\* they draw is on no canvas of the document (their boxes flag is of no use)
Unmount ==
    /\ mounted
    /\ mounted' = FALSE
    /\ LET c == IF cleanup THEN EffectCleanup(timers, intervalRef)
                ELSE [timers |-> timers, ref |-> intervalRef]
       IN  timers' = c.timers
    /\ calls' = [i \in 1..Len(calls) |->
                   [calls[i] EXCEPT !.alive = FALSE, !.stale = FALSE,
                                    !.boxes = TRUE]]
    /\ props' = DefaultProps
    /\ isModelLoaded' = FALSE /\ isModelLoading' = FALSE /\ detections' = 0
    /\ intervalRef' = 0 /\ rendered' = NotRendered /\ cleanup' = FALSE
    /\ drawn' = 0
    /\ loadError' = FALSE
    /\ event' = Ev("unmount")
    /\ UNCHANGED <<session, modelLoading, modelLoaded, unhandled>>

\* The consumer changes a prop in the handler of a user event and React
\* commits the render that follows before the consumer handles another: a prop
\* changes only when the last commit rendered the props as they are.
PropsRendered ==
    /\ rendered.valid
    /\ rendered.isDetecting = props.isDetecting
    /\ rendered.confidenceThreshold = props.confidenceThreshold
    /\ rendered.showBoundingBoxes = props.showBoundingBoxes
    /\ rendered.showLabels = props.showLabels
    /\ rendered.detectionInterval = props.detectionInterval

SetIsDetecting ==
    /\ mounted /\ PropsRendered
    /\ props' = [props EXCEPT !.isDetecting = ~props.isDetecting]
    /\ event' = Ev("props")
    /\ UNCHANGED <<svcVars, mounted, isModelLoaded, isModelLoading, detections,
                   intervalRef, rendered, cleanup, browserVars, loadError,
                   unhandled>>

SetConfidenceThreshold ==
    /\ mounted /\ PropsRendered
    /\ \E c \in ConfidenceValues \ {props.confidenceThreshold} :
         props' = [props EXCEPT !.confidenceThreshold = c]
    /\ event' = Ev("props")
    /\ UNCHANGED <<svcVars, mounted, isModelLoaded, isModelLoading, detections,
                   intervalRef, rendered, cleanup, browserVars, loadError,
                   unhandled>>

SetDetectionInterval ==
    /\ mounted /\ PropsRendered
    /\ \E n \in IntervalValues \ {props.detectionInterval} :
         props' = [props EXCEPT !.detectionInterval = n]
    /\ event' = Ev("props")
    /\ UNCHANGED <<svcVars, mounted, isModelLoaded, isModelLoading, detections,
                   intervalRef, rendered, cleanup, browserVars, loadError,
                   unhandled>>

SetShowBoundingBoxes ==
    /\ mounted /\ PropsRendered
    /\ props' = [props EXCEPT !.showBoundingBoxes = ~props.showBoundingBoxes]
    /\ event' = Ev("props")
    /\ UNCHANGED <<svcVars, mounted, isModelLoaded, isModelLoading, detections,
                   intervalRef, rendered, cleanup, browserVars, loadError,
                   unhandled>>

SetShowLabels ==
    /\ mounted /\ PropsRendered
    /\ props' = [props EXCEPT !.showLabels = ~props.showLabels]
    /\ event' = Ev("props")
    /\ UNCHANGED <<svcVars, mounted, isModelLoaded, isModelLoading, detections,
                   intervalRef, rendered, cleanup, browserVars, loadError,
                   unhandled>>

\* React commits a render: the effects whose dependencies changed run, the load
\* effect first.  A load the service answers at once (true or false) resumes the
\* hook in the microtask that follows; a load that starts leaves a pending call
\* and the isModelLoading the effect asked for, which a later commit renders.
Commit ==
    /\ mounted
    /\ rendered # Current
    /\ LET r == Current
           loadChanged == \/ ~rendered.valid
                          \/ r.isModelLoaded # rendered.isModelLoaded
                          \/ r.isModelLoading # rendered.isModelLoading
           detChanged == \/ ~rendered.valid
                         \/ r.isDetecting # rendered.isDetecting
                         \/ r.isModelLoaded # rendered.isModelLoaded
                         \/ r.confidenceThreshold # rendered.confidenceThreshold
                         \/ r.showBoundingBoxes # rendered.showBoundingBoxes
                         \/ r.showLabels # rendered.showLabels
                         \/ r.detectionInterval # rendered.detectionInterval
           startLoad == loadChanged /\ LoadEffectRuns(r)
           entry == LoadModelEntry(modelLoaded, modelLoading)
       IN  /\ IF startLoad /\ entry = "start"
              THEN /\ modelLoading' = TRUE
                   /\ calls' = Append(calls, HookLoadCall)
                   /\ isModelLoading' = TRUE
                   /\ isModelLoaded' = isModelLoaded
                   /\ rendered' = r
              ELSE IF startLoad
              THEN /\ isModelLoaded' = TRUE
                   /\ isModelLoading' = FALSE
                   /\ rendered' = r
                   /\ UNCHANGED <<modelLoading, calls>>
              ELSE /\ rendered' = r
                   /\ UNCHANGED <<modelLoading, calls, isModelLoaded,
                                  isModelLoading>>
           /\ loadError' = IF startLoad THEN FALSE ELSE loadError
           /\ IF detChanged
              THEN \E elems \in BOOLEAN, ctxOk \in BOOLEAN :
                     LET e == DetectionEffect(r, elems, ctxOk, FreshTimerId) IN
                     \* the context is asked for only if both elements exist
                     /\ elems \/ ctxOk
                     /\ timers' = e.timers
                     /\ intervalRef' = e.ref
                     /\ cleanup' = e.cleanup
                     /\ drawn' = e.drawn
              ELSE UNCHANGED <<timers, intervalRef, cleanup, drawn>>
    /\ event' = Ev("commit")
    /\ UNCHANGED <<session, modelLoaded, mounted, props, detections, unhandled>>

\* an interval timer fires and its callback runs up to its first real wait
TickFire ==
    \E t \in timers, v \in VideoStates, capture \in CaptureOutcomes :
      \* a tick that skips captures nothing
      (FrameReady(v) \/ capture = "ok") /\
      LET entry == IF modelLoaded THEN "true"
                   ELSE LoadModelEntry(modelLoaded, modelLoading)
      IN
      IF ~FrameReady(v)
      THEN /\ event' = TickEv("tickSkip", v)
           /\ UNCHANGED <<svcVars, hookVars, browserVars, loadError, unhandled>>
      ELSE IF capture # "ok"
      THEN /\ event' = TickEv("captureFail", v)
           /\ drawn' = IF capture = "getImageData" THEN 0 ELSE drawn
           /\ unhandled' = (unhandled \/ ~Caught(capture))
           /\ UNCHANGED <<svcVars, hookVars, timers, loadError>>
      ELSE IF entry = "start"
      THEN \* detect finds no model and no load in progress: it starts one
           /\ Cardinality(DetectCalls(calls)) < MaxInFlight
           /\ modelLoading' = TRUE
           /\ calls' = Append(calls, DetectCall("fetch", t.boxes))
           /\ drawn' = 0
           /\ event' = TickEv("detect", v)
           /\ UNCHANGED <<session, modelLoaded, hookVars, timers,
                          loadError, unhandled>>
      ELSE IF session = 0
      THEN \* loadModel answered at once and there is no session: run on null
           /\ drawn' = 0
           /\ unhandled' = (unhandled \/ ~Caught("detect"))
           /\ event' = TickEv("detectFail", v)
           /\ UNCHANGED <<svcVars, hookVars, timers, loadError>>
      ELSE /\ Cardinality(DetectCalls(calls)) < MaxInFlight
           /\ calls' = Append(calls, DetectCall("run", t.boxes))
           /\ drawn' = 0
           /\ event' = TickEv("detect", v)
           /\ UNCHANGED <<session, modelLoading, modelLoaded, hookVars, timers,
                          loadError, unhandled>>

\* the model file of a load in progress has been fetched
LoadFetched ==
    \E i \in 1..Len(calls) :
      /\ calls[i].pc = "fetch"
      /\ calls' = [calls EXCEPT ![i].pc = "create"]
      /\ event' = Ev("fetched")
      /\ UNCHANGED <<session, modelLoading, modelLoaded, hookVars, browserVars,
                     loadError, unhandled>>

\* InferenceSession.create resolves: the session is installed and the caller
\* that awaited loadModel resumes
LoadCreated ==
    \E i \in 1..Len(calls) :
      /\ calls[i].pc = "create"
      /\ session' = session + 1
      /\ modelLoaded' = TRUE
      /\ modelLoading' = FALSE
      /\ IF calls[i].kind = "hookLoad"
         THEN /\ calls' = Remove(calls, i)
              /\ isModelLoaded' = (IF calls[i].alive THEN TRUE ELSE isModelLoaded)
              /\ isModelLoading' = (IF calls[i].alive THEN FALSE ELSE isModelLoading)
         ELSE /\ calls' = [calls EXCEPT ![i].pc = "run"]
              /\ UNCHANGED <<isModelLoaded, isModelLoading>>
      /\ event' = Ev("loaded")
      /\ UNCHANGED <<mounted, props, detections, intervalRef, rendered, cleanup,
                     browserVars, loadError, unhandled>>

\* the fetch or the session creation of a load in progress fails: loadModel
\* throws into the caller that awaited it
LoadFailed ==
    \E i \in 1..Len(calls) :
      /\ calls[i].pc \in LoadPcs
      /\ modelLoading' = FALSE
      /\ calls' = Remove(calls, i)
      /\ IF calls[i].kind = "hookLoad"
         THEN /\ isModelLoading' = (IF calls[i].alive THEN FALSE ELSE isModelLoading)
              /\ loadError' = (IF calls[i].alive THEN TRUE ELSE loadError)
              /\ event' = Ev("loadFail")
              /\ UNCHANGED unhandled
         ELSE /\ unhandled' = (unhandled \/ ~Caught("detect"))
              /\ event' = Ev("asyncFail")
              /\ UNCHANGED <<isModelLoading, loadError>>
      /\ UNCHANGED <<session, modelLoaded, mounted, props, isModelLoaded,
                     detections, intervalRef, rendered, cleanup, browserVars>>

\* session.run resolves and postprocess returns: the tick publishes and draws
RunOk ==
    \E i \in 1..Len(calls), res \in Results :
      /\ calls[i].pc = "run"
      /\ calls' = Remove([j \in 1..Len(calls) |->
                            IF j < i /\ calls[i].alive /\ calls[j].kind = "detect"
                            THEN [calls[j] EXCEPT !.stale = TRUE]
                            ELSE calls[j]], i)
      /\ detections' = (IF calls[i].alive THEN res ELSE detections)
      /\ drawn' = (IF calls[i].alive /\ calls[i].boxes /\ res # 0
                   THEN res ELSE drawn)
      /\ event' = Ev(IF ~calls[i].alive THEN "dropped"
                     ELSE IF calls[i].stale THEN "publishLate" ELSE "publish")
      /\ UNCHANGED <<session, modelLoading, modelLoaded, mounted, props,
                     isModelLoaded, isModelLoading, intervalRef, rendered,
                     cleanup, timers, loadError, unhandled>>

\* session.run rejects or postprocess throws: detect rejects inside the tick
RunFailed ==
    \E i \in 1..Len(calls) :
      /\ calls[i].pc = "run"
      /\ calls' = Remove(calls, i)
      /\ unhandled' = (unhandled \/ ~Caught("detect"))
      /\ event' = Ev("asyncFail")
      /\ UNCHANGED <<session, modelLoading, modelLoaded, hookVars, browserVars,
                     loadError>>

Next ==
    \/ Mount /\ UNCHANGED <<fnVars, pageVars>>
    \/ Unmount /\ UNCHANGED <<fnVars, pageVars>>
    \/ SetIsDetecting /\ UNCHANGED <<fnVars, pageVars>>
    \/ SetConfidenceThreshold /\ UNCHANGED <<fnVars, pageVars>>
    \/ SetDetectionInterval /\ UNCHANGED <<fnVars, pageVars>>
    \/ SetShowBoundingBoxes /\ UNCHANGED <<fnVars, pageVars>>
    \/ SetShowLabels /\ UNCHANGED <<fnVars, pageVars>>
    \/ Commit /\ UNCHANGED <<fnVars, pageVars>>
    \/ TickFire /\ UNCHANGED <<fnVars, pageVars>>
    \/ LoadFetched /\ UNCHANGED <<fnVars, pageVars>>
    \/ LoadCreated /\ UNCHANGED <<fnVars, pageVars>>
    \/ LoadFailed /\ UNCHANGED <<fnVars, pageVars>>
    \/ RunOk /\ UNCHANGED <<fnVars, pageVars>>
    \/ RunFailed /\ UNCHANGED <<fnVars, pageVars>>

Spec == Init /\ [][Next]_vars

\* ------------------------------------------------ the ObjectDetector page
\* The page is followed on its own: of the hook it mounts only the
\* isModelLoaded and isModelLoading it returns are kept, with the load effect
\* that sets them.

\* what a render of the page now would show
PageCurrent ==
    [webcamActive |-> page.webcamActive, isModelLoaded |-> page.isModelLoaded,
     isModelLoading |-> page.isModelLoading, isDetecting |-> page.isDetecting]
\* videoRef.current is an element: the last commit rendered the <video>
VideoRef == page.mounted /\ page.shown.webcamActive
\* videoRef.current as the cleanup of the mount effect reads it: React has
\* detached the refs of the unmounted elements by the time it runs the cleanups
\* of passive effects
CleanupVideoRef == FALSE
\* a pending getUserMedia call: next is what the caller chained on the promise
\* of startWebcam, alive whether the page instance that called is still mounted
Request(next) == [next |-> next, alive |-> TRUE]
\* startWebcam up to its await: one more getUserMedia call is pending
StartWebcam(pg, next) ==
    [pg EXCEPT !.requests = Append(pg.requests, Request(next))]
\* the buttons the last commit left enabled
EnabledButtons ==
    (IF ~page.shown.webcamActive THEN {"enableWebcam"} ELSE {}) \cup
    (IF page.shown.isModelLoaded /\ page.shown.webcamActive
     THEN {"toggleDetection"} ELSE {}) \cup
    (IF ~page.shown.isModelLoaded /\ ~page.shown.isModelLoading
     THEN {"downloadModel"} ELSE {})

\* the page mounts: the load effect of the hook asks for isModelLoading and
\* calls loadModel, the mount effect calls startWebcam
PageMount ==
    /\ ~page.mounted
    /\ Len(page.requests) < MaxRequests
    /\ page' = StartWebcam([NoPage EXCEPT !.mounted = TRUE,
                                          !.isModelLoading = TRUE,
                                          !.requests = page.requests,
                                          !.streams = page.streams,
                                          !.event = "mount"], "none")
    /\ UNCHANGED <<svcVars, hookVars, browserVars, obsVars, fnVars>>

\* the page unmounts: the cleanup of the mount effect stops the tracks of the
\* stream attached to the video element, if it finds an element; the setters
\* and the ref of this instance reach nothing from now on
PageUnmount ==
    /\ page.mounted
    /\ page' = [NoPage EXCEPT
                  !.requests = [i \in 1..Len(page.requests) |->
                                  [page.requests[i] EXCEPT !.alive = FALSE]],
                  !.streams = IF CleanupVideoRef /\ page.srcObject
                              THEN page.streams - 1 ELSE page.streams,
                  !.event = "unmount"]
    /\ UNCHANGED <<svcVars, hookVars, browserVars, obsVars, fnVars>>

\* the user clicks one of the enabled buttons
PageClick ==
    /\ page.mounted
    /\ \E b \in EnabledButtons :
         LET clicked == [page EXCEPT !.event = b] IN
         IF b = "enableWebcam"
         THEN /\ Len(page.requests) < MaxRequests
              /\ page' = StartWebcam(clicked, "none")
         ELSE IF b = "toggleDetection"
         THEN IF page.shown.isDetecting
              THEN page' = [clicked EXCEPT !.isDetecting = FALSE]
              ELSE IF ~page.shown.webcamActive
              THEN /\ Len(page.requests) < MaxRequests
                   /\ page' = StartWebcam(clicked, "detect")
              ELSE page' = [clicked EXCEPT !.isDetecting = TRUE]
         ELSE page' = clicked
    /\ UNCHANGED <<svcVars, hookVars, browserVars, obsVars, fnVars>>

\* the user moves the confidence slider
PageSetConfidence ==
    /\ page.mounted
    /\ \E c \in ConfidenceValues \ {page.confidenceThreshold} :
         page' = [page EXCEPT !.confidenceThreshold = c, !.event = "setting"]
    /\ UNCHANGED <<svcVars, hookVars, browserVars, obsVars, fnVars>>

\* the user moves the detection speed slider
PageSetInterval ==
    /\ page.mounted
    /\ \E n \in IntervalValues \ {page.detectionInterval} :
         page' = [page EXCEPT !.detectionInterval = n, !.event = "setting"]
    /\ UNCHANGED <<svcVars, hookVars, browserVars, obsVars, fnVars>>

\* the user flips one of the two switches
PageSwitch ==
    /\ page.mounted
    /\ \/ page' = [page EXCEPT !.showBoundingBoxes = ~page.showBoundingBoxes,
                               !.event = "setting"]
       \/ page' = [page EXCEPT !.showLabels = ~page.showLabels,
                               !.event = "setting"]
    /\ UNCHANGED <<svcVars, hookVars, browserVars, obsVars, fnVars>>

\* the loadModel call of the hook returns (true or false): the hook reports
\* the model loaded
PageModelLoaded ==
    /\ page.mounted /\ page.isModelLoading
    /\ page' = [page EXCEPT !.isModelLoaded = TRUE, !.isModelLoading = FALSE,
                            !.event = "modelLoaded"]
    /\ UNCHANGED <<svcVars, hookVars, browserVars, obsVars, fnVars>>

\* the loadModel call of the hook throws: the hook is no longer loading
PageModelFailed ==
    /\ page.mounted /\ page.isModelLoading
    /\ page' = [page EXCEPT !.isModelLoading = FALSE, !.event = "modelFailed"]
    /\ UNCHANGED <<svcVars, hookVars, browserVars, obsVars, fnVars>>

\* React commits a render of the page: the <video> element exists from now on
\* exactly if webcamActive was true in it, and the load effect of the hook
\* runs if one of its dependencies changed, starting a load if the render had
\* the model neither loaded nor loading
PageCommit ==
    /\ page.mounted
    /\ page.shown # PageCurrent
    /\ LET loadChanged == \/ page.isModelLoaded # page.shown.isModelLoaded
                          \/ page.isModelLoading # page.shown.isModelLoading
       IN  page' = [page EXCEPT
                      !.shown = PageCurrent,
                      !.isModelLoading =
                          IF loadChanged /\ LoadEffectRuns(PageCurrent)
                          THEN TRUE ELSE page.isModelLoading,
                      !.srcObject = page.srcObject /\ page.webcamActive,
                      !.onloadedmetadata =
                          page.onloadedmetadata /\ page.webcamActive,
                      !.event = "commit"]
    /\ UNCHANGED <<svcVars, hookVars, browserVars, obsVars, fnVars>>

\* what the caller of startWebcam chained on its promise runs: toggleDetection
\* sets isDetecting whether the stream was granted or not
ThenOf(pg, req) ==
    IF req.next = "detect" /\ req.alive THEN [pg EXCEPT !.isDetecting = TRUE]
    ELSE pg

\* a callback of startWebcam runs: one of the pending getUserMedia calls
\* resolves with a stream or rejects, or the video element the stream was
\* attached to fires loadedmetadata.  The ref and the setters used are those
\* of the instance that called.
StartWebcamResumes ==
    /\ \E kind \in {"stream", "denied", "metadata"}, i \in 1..MaxRequests :
         LET req == page.requests[i]
             ref == req.alive /\ VideoRef
         IN
         IF kind = "stream"
         THEN /\ i <= Len(page.requests)
              /\ page.streams < MaxStreams
              /\ page' = ThenOf([page EXCEPT
                                   !.requests = Remove(page.requests, i),
                                   !.streams = page.streams + 1,
                                   !.srcObject = page.srcObject \/ ref,
                                   !.onloadedmetadata =
                                       page.onloadedmetadata \/ ref,
                                   !.event = "granted"],
                                 req)
         ELSE IF kind = "denied"
         THEN /\ i <= Len(page.requests)
              /\ page' = ThenOf([page EXCEPT
                                   !.requests = Remove(page.requests, i),
                                   !.webcamActive =
                                       page.webcamActive /\ ~req.alive,
                                   !.hasWebcamPermission =
                                       page.hasWebcamPermission /\ ~req.alive,
                                   !.event = "denied"],
                                 req)
         ELSE /\ i = 1
              /\ page.srcObject /\ page.onloadedmetadata
              /\ page' = [page EXCEPT !.webcamActive = TRUE,
                                      !.hasWebcamPermission = TRUE,
                                      !.event = "metadata"]
    /\ UNCHANGED <<svcVars, hookVars, browserVars, obsVars, fnVars>>

NextPage ==
    \/ PageMount
    \/ PageUnmount
    \/ PageClick
    \/ PageSetConfidence
    \/ PageSetInterval
    \/ PageSwitch
    \/ PageModelLoaded
    \/ PageModelFailed
    \/ PageCommit
    \/ StartWebcamResumes

\* The browser runs every callback that is due and React commits every render
\* that is asked for; nothing is assumed of the user.
PageFairness == WF_vars(StartWebcamResumes) /\ WF_vars(PageCommit)

SpecPage == Init /\ [][NextPage]_vars /\ PageFairness

\* ------------------------------------------ the numeric stages, exercised

\* a box of whole numbers
IntBox(x, y, w, h) == <<NumFromInt(x), NumFromInt(y), NumFromInt(w), NumFromInt(h)>>
\* candidate boxes: three boxes 8 wide in a row, each shifted by 2 (neighbours
\* have IoU 6/10, the outer two 4/12)
NmsBoxes == {IntBox(2 * k, 0, 8, 1) : k \in 0..2}
NmsLabels == {"person", "chair"}
NmsConfidences == {Hundredths(70), Hundredths(92)}
\* every "person" candidate, and the "chair" candidates of the greater
\* confidence
NmsCandidates ==
    {c \in [box : NmsBoxes, label : NmsLabels, confidence : NmsConfidences] :
       c.label = "person" \/ c.confidence = Hundredths(92)}
NmsThresholds == {Hundredths(IouThreshold), Hundredths(IouThreshold + 15)}
NmsInputs ==
    UNION {[boxes : [1..n -> NmsCandidates], iouThreshold : NmsThresholds] :
             n \in 0..MaxBoxes}

InitNms ==
    /\ LoopInit /\ PageClosed
    /\ fnStage = "called" /\ fnInput \in NmsInputs /\ fnOutput = <<>>

ApplyNms ==
    /\ fnStage = "called"
    /\ fnOutput' = NonMaxSuppression(fnInput.boxes, fnInput.iouThreshold)
    /\ fnStage' = "returned"
    /\ UNCHANGED <<svcVars, hookVars, browserVars, obsVars, fnInput, pageVars>>

NextNms == ApplyNms

SpecNms == InitNms /\ [][NextNms]_vars

\* Raw rows: centre (1/2, 1/2), height 1/32, width 1/16 or -1/32, an objectness
\* of 0.25, 0.5 or 0.875, and k class scores that are 0 but for one: 0.875 at
\* the first or the last position, or 0.5 at the first.  The rows of negative
\* width are those of objectness 0.875 with 0.875 at the first position.
RawWidths == {4, 0 - 2}
Objectness == {16, 32, 56}
Peaks(k) == {<<1, 56>>, <<k, 56>>, <<1, 32>>}
ClassCounts == {0, 1, Len(ClassNames), Len(ClassNames) + MaxExtra}
RawRow(k, w, obj, peak) ==
    <<32, 32, w, 2, obj>> \o [j \in 1..k |-> IF j = peak[1] THEN peak[2] ELSE 0]
RawRows(k) ==
    {RawRow(k, w, obj, peak) : w \in {v \in RawWidths : v > 0},
                               obj \in Objectness, peak \in Peaks(k)}
        \cup {RawRow(k, w, 56, <<1, 56>>) : w \in {v \in RawWidths : v < 0}}
RECURSIVE Flatten(_)
Flatten(rows) == IF rows = <<>> THEN <<>> ELSE Head(rows) \o Flatten(Tail(rows))
\* the tensor the engine returns for these rows
Tensor(rows, k) == [data |-> Flatten(rows), dims |-> <<1, Len(rows), 5 + k>>]
RawOutputs ==
    {<<>>} \cup
    UNION {{<<Tensor(rows, k)>> : rows \in [1..n -> RawRows(k)]} :
             n \in 0..MaxRows, k \in ClassCounts}
\* image sizes: one whose quotients by the model size need no rounding, and
\* one whose width / 640 is rounded
ImageSizes == {<<640, 480>>, <<854, 480>>}
PostThresholds == {Hundredths(ScoreThreshold), Hundredths(ScoreThreshold - 20)}
PostInputs ==
    [output : RawOutputs, size : ImageSizes, confidenceThreshold : PostThresholds]

InitPost ==
    /\ LoopInit /\ PageClosed
    /\ fnStage = "called" /\ fnInput \in PostInputs /\ fnOutput = <<>>

ApplyPost ==
    /\ fnStage = "called"
    /\ fnOutput' = Postprocess(fnInput.output, fnInput.size[1], fnInput.size[2],
                               fnInput.confidenceThreshold)
    /\ fnStage' = "returned"
    /\ UNCHANGED <<svcVars, hookVars, browserVars, obsVars, fnInput, pageVars>>

NextPost == ApplyPost

SpecPost == InitPost /\ [][NextPost]_vars

\* the least width w of a frame for which the code finds w * (3 / w) below 3
InexactFrame == 47
\* Frames of 0..MaxFrame by 0..MaxFrame pixels, and of InexactFrame by
\* InexactFrame, whose RGBA bytes run through 0..255 in steps of 37 from the
\* first byte on, upwards from 0 or downwards from 255.
FrameBytes(n, seed) ==
    [p \in 1..n |-> IF seed = 0 THEN ((p - 1) * 37) % 256
                               ELSE 255 - (((p - 1) * 37) % 256)]
Frames ==
    {[width |-> size[1], height |-> size[2],
      data |-> FrameBytes(4 * size[1] * size[2], seed)] :
       size \in ((0..MaxFrame) \X (0..MaxFrame))
                  \cup {<<InexactFrame, InexactFrame>>},
       seed \in {0, 1}}
\* target shapes [batch, channels, height, width], small in place of
\* modelConfig.inputShape
TargetShapes == {<<1, 3, h, w>> : h \in 1..MaxTarget, w \in 1..MaxTarget}
PreInputs == [imageData : Frames, shape : TargetShapes]

InitPre ==
    /\ LoopInit /\ PageClosed
    /\ fnStage = "called" /\ fnInput \in PreInputs /\ fnOutput = <<>>

ApplyPre ==
    /\ fnStage = "called"
    /\ fnOutput' = Preprocess(fnInput.imageData, fnInput.shape)
    /\ fnStage' = "returned"
    /\ UNCHANGED <<svcVars, hookVars, browserVars, obsVars, fnInput, pageVars>>

NextPre == ApplyPre

SpecPre == InitPre /\ [][NextPre]_vars

\* boxes with left/top in 0..MaxOrigin and width/height in -1..MaxSize
IouBoxes ==
    {IntBox(x, y, w, h) : x \in 0..MaxOrigin, y \in 0..MaxOrigin,
                          w \in (0 - 1)..MaxSize, h \in (0 - 1)..MaxSize}

InitIou ==
    /\ LoopInit /\ PageClosed
    /\ fnStage = "called" /\ fnInput \in IouBoxes \X IouBoxes /\ fnOutput = <<>>

ApplyIou ==
    /\ fnStage = "called"
    /\ fnOutput' = CalculateIoU(fnInput[1], fnInput[2])
    /\ fnStage' = "returned"
    /\ UNCHANGED <<svcVars, hookVars, browserVars, obsVars, fnInput, pageVars>>

NextIou == ApplyIou

SpecIou == InitIou /\ [][NextIou]_vars

\* ------------------------------------------------------------------ claims

TickNames == {"tickSkip", "captureFail", "detect", "detectFail"}
PublishNames == {"publish", "publishLate"}
LiveDetects == {i \in DetectCalls(calls) : calls[i].alive}
NotReady(v) == v.readyState # 4 \/ v.paused \/ v.ended

\* C1 (as claimed): at most one detect call of the loop is in flight at any
\* time; a tick that finds the previous detect still pending starts no second.
C1_AtMostOneInFlight == Cardinality(LiveDetects) <= 1

\* the stop has been processed: the consumer asked for no detection and the
\* effects of that render have run
StopProcessed ==
    mounted /\ ~props.isDetecting /\ rendered.valid /\ ~rendered.isDetecting

\* C2 (as claimed): once the loop is stopped no detection set is published;
\* the result of a detect call that was in flight at the stop is discarded.
C2_NoPublishAfterStop ==
    [][StopProcessed => event'.name \notin PublishNames]_vars

\* C3: stopping cancels the schedule.  An interval timer is active only while
\* the last processed render asked for detection with the model loaded (so once
\* a stop is processed, or the hook is unmounted, no timer is left to start a
\* tick), the only timer is the one the hook holds, and there is never more
\* than one.
C3_StopCancelsSchedule ==
    /\ Cardinality(timers) <= 1
    /\ \A t \in timers : t.id = intervalRef
    /\ timers # {} =>
         mounted /\ rendered.valid /\ rendered.isDetecting /\ rendered.isModelLoaded

\* C3 witness: a loop that ran has been stopped by the consumer and the commit
\* that processed the stop left no timer.
C3_Witness ==
    /\ StopProcessed /\ rendered.isModelLoaded
    /\ event.name = "commit" /\ detections # 0 /\ timers = {} /\ intervalRef = 0

\* C4 (as claimed): after a load failed the hook starts no load on its own
\* (the hook offers the consumer no retry request, so every load that starts
\* after a failure is one it started on its own).
C4_NoLoadAfterFailure ==
    [][loadError => LoadsInProgress(calls') <= LoadsInProgress(calls)]_vars

\* C5 (as claimed): the hook reports the model loaded only if the service has
\* it loaded, and a tick invokes detect only while the model is loaded.
C5_TickOnlyWhenLoaded ==
    /\ isModelLoaded => modelLoaded /\ session # 0
    /\ event.name \in {"detect", "detectFail"} => modelLoaded /\ session # 0

\* C6: a failure inside a tick (frame capture, or anything that makes detect
\* reject: load, inference, postprocessing) stays inside the tick: nothing
\* leaves the callback, the timer and the hook's handle on it are untouched,
\* the published detection set is unchanged, and the timer that fired is still
\* active for later ticks.
C6_TickFailureContained ==
    [][event'.name \in {"captureFail", "detectFail", "asyncFail"} =>
         /\ ~unhandled'
         /\ timers' = timers /\ intervalRef' = intervalRef
         /\ detections' = detections
         /\ event'.name \in {"captureFail", "detectFail"} => timers' # {}]_vars

\* C6 witness: an inference failed inside a tick while a set was published, and
\* the loop's timer is still active.
C6_Witness ==
    /\ event.name = "asyncFail" /\ timers # {} /\ detections # 0 /\ ~unhandled

\* C7 (as claimed): after a failed load, and until a retry begins, the status
\* the consumer sees is "error".
C7_ErrorStatus == loadError => ModelStatus = "error"

\* C8 (as claimed): a commit that changes only tunable parameters (the
\* confidence threshold, the tick interval) while the loop is running leaves
\* the running timer in place.
C8_ParamChangeKeepsTimer ==
    [][(/\ event'.name = "commit"
        /\ timers # {} /\ rendered.valid
        /\ rendered'.isDetecting = rendered.isDetecting
        /\ rendered'.isModelLoaded = rendered.isModelLoaded
        /\ rendered'.showBoundingBoxes = rendered.showBoundingBoxes
        /\ rendered'.showLabels = rendered.showLabels)
       => timers' = timers]_vars

\* C9: a tick that finds the frame source not ready (readyState not 4, paused
\* or ended) is a skip: it starts no call, publishes and draws nothing, leaves
\* the published set and the schedule as they were, and raises nothing.
C9_NotReadyIsSkip ==
    [][(event'.name \in TickNames /\ NotReady(event'.video)) =>
         /\ event'.name = "tickSkip"
         /\ calls' = calls
         /\ detections' = detections /\ drawn' = drawn
         /\ timers' = timers /\ intervalRef' = intervalRef
         /\ unhandled' = unhandled]_vars

\* C9 witness: a tick was skipped on a paused video while a detection set was
\* published and the loop's timer is active.
C9_Witness ==
    /\ event.name = "tickSkip" /\ event.video.paused
    /\ detections # 0 /\ timers # {}

\* C10: one model session.  At most one load is in progress, a session is
\* installed at most once, the loaded flag implies a session, and once loaded
\* no load is in progress and loadModel answers true at once.
C10_OneSession ==
    /\ LoadsInProgress(calls) <= 1
    /\ session <= 1
    /\ modelLoaded => session # 0
    /\ modelLoaded =>
         /\ LoadsInProgress(calls) = 0
         /\ LoadModelEntry(modelLoaded, modelLoading) = "true"

\* C10 witness: a load that detect started installed the session while another
\* detect call had been turned away, and detect is now running on the session.
C10_Witness ==
    /\ modelLoaded /\ session = 1 /\ event.name = "loaded"
    /\ \E i \in DetectCalls(calls) : calls[i].pc = "run"

\* C25: under any interleaving of detect and loadModel calls on the shared
\* service, detect runs inference only with a loaded session: a detect call
\* made while another call's load is in progress waits for it or fails with a
\* model-load error, and never goes on to session.run with session still null.
C25_NoRunOnNullSession == event.name # "detectFail"

\* C26: detection sets are published in tick order: the set that replaces the
\* published one comes from a tick that started later, never from a tick that
\* started before the tick whose set it replaces.
C26_PublishedInTickOrder == [][event'.name # "publishLate"]_vars


\* ------------------------------------------- claims on nonMaxSuppression

Range(seq) == {seq[i] : i \in 1..Len(seq)}
Count(seq, d) == Cardinality({i \in 1..Len(seq) : seq[i] = d})
\* the candidates of one label, in their order
RECURSIVE OfLabel(_, _)
OfLabel(seq, l) ==
    IF seq = <<>> THEN <<>>
    ELSE IF Head(seq).label = l THEN <<Head(seq)>> \o OfLabel(Tail(seq), l)
    ELSE OfLabel(Tail(seq), l)
\* d is in the input more often than in the output
Discarded(d) == Count(fnOutput, d) < Count(fnInput.boxes, d)
NmsReturned == fnStage = "returned"
\* a "person" candidate with a box of whole numbers and a confidence in
\* hundredths
Person(x, y, w, h, c) ==
    [box |-> IntBox(x, y, w, h), label |-> "person", confidence |-> Hundredths(c)]

\* C11: suppression is class-aware.  What is kept of one label is what
\* suppression keeps of that label's candidates alone, whatever the other
\* labels' boxes are; a discarded candidate has a kept candidate of its own
\* label; a candidate whose label no other candidate carries is kept.
C11_ClassAware ==
    NmsReturned =>
        /\ \A l \in NmsLabels :
             OfLabel(fnOutput, l)
               = NonMaxSuppression(OfLabel(fnInput.boxes, l), fnInput.iouThreshold)
        /\ \A d \in Range(fnInput.boxes) :
             /\ Discarded(d) => \E k \in Range(fnOutput) : k.label = d.label
             /\ Len(OfLabel(fnInput.boxes, d.label)) = 1 => d \in Range(fnOutput)

\* two candidates with the same box and different labels were both kept
C11_Witness ==
    /\ NmsReturned
    /\ Len(fnInput.boxes) = 2
    /\ fnInput.boxes[1].box = fnInput.boxes[2].box
    /\ fnInput.boxes[1].label = "person" /\ fnInput.boxes[2].label = "chair"
    /\ Range(fnOutput) = Range(fnInput.boxes)
    /\ Len(fnOutput) = 2

\* C12: suppression returns a sub-collection of its input, and every discarded
\* candidate has a kept candidate of the same label with confidence >= its own
\* and IoU with it > iouThreshold.
C12_SubCollectionDominated ==
    NmsReturned =>
        /\ Len(fnOutput) <= Len(fnInput.boxes)
        /\ \A d \in Range(fnOutput) : Count(fnOutput, d) <= Count(fnInput.boxes, d)
        /\ \A d \in Range(fnInput.boxes) :
             Discarded(d) =>
               \E k \in Range(fnOutput) :
                  /\ k.label = d.label
                  /\ NumLeq(d.confidence, k.confidence)
                  /\ NumGreater(CalculateIoU(k.box, d.box), fnInput.iouThreshold)

\* two "person" boxes with IoU 6/10 and confidences 0.70 and 0.92, in that
\* order, at threshold 0.45: only the 0.92 box is left
C12_Witness ==
    /\ NmsReturned
    /\ fnInput.iouThreshold = Hundredths(IouThreshold)
    /\ fnInput.boxes = <<Person(0, 0, 8, 1, 70), Person(2, 0, 8, 1, 92)>>
    /\ fnOutput = <<Person(2, 0, 8, 1, 92)>>

Permuted(seq, p) == [i \in 1..Len(seq) |-> seq[p[i]]]

\* C13: the result of suppression is order-independent: every permutation of
\* the candidate list, lists with equal confidences included, gives the same
\* set of detections at the same iouThreshold.
C13_OrderIndependent ==
    NmsReturned =>
        \A p \in Permutations(1..Len(fnInput.boxes)) :
           Range(NonMaxSuppression(Permuted(fnInput.boxes, p), fnInput.iouThreshold))
             = Range(fnOutput)

\* the candidates of one confidence, in their order
RECURSIVE OfConfidence(_, _)
OfConfidence(seq, c) ==
    IF seq = <<>> THEN <<>>
    ELSE IF Head(seq).confidence = c
    THEN <<Head(seq)>> \o OfConfidence(Tail(seq), c)
    ELSE OfConfidence(Tail(seq), c)
\* sub can be had from seq by leaving elements out
RECURSIVE IsSubSeq(_, _)
IsSubSeq(sub, seq) ==
    IF sub = <<>> THEN TRUE
    ELSE IF seq = <<>> THEN FALSE
    ELSE IF Head(sub) = Head(seq) THEN IsSubSeq(Tail(sub), Tail(seq))
    ELSE IsSubSeq(sub, Tail(seq))

\* C22: suppression returns the kept candidates in confidence-descending
\* order, and kept candidates of equal confidence in the relative order they
\* had in the input; no two elements of the result are in ascending order.
C22_DescendingAndStable ==
    NmsReturned =>
        /\ \A i \in 1..Len(fnOutput), j \in 1..Len(fnOutput) :
              i < j => NumLeq(fnOutput[j].confidence, fnOutput[i].confidence)
        /\ \A c \in NmsConfidences :
              IsSubSeq(OfConfidence(fnOutput, c), OfConfidence(fnInput.boxes, c))

\* three candidates came in ascending order of confidence but for a tie, all
\* were kept, and the two of equal confidence follow the third in their
\* input order
C22_Witness ==
    /\ NmsReturned
    /\ Len(fnInput.boxes) = 3 /\ Len(fnOutput) = 3
    /\ fnInput.boxes[1].confidence = fnInput.boxes[2].confidence
    /\ fnInput.boxes[1] # fnInput.boxes[2]
    /\ NumGreater(fnInput.boxes[3].confidence, fnInput.boxes[1].confidence)
    /\ fnOutput = <<fnInput.boxes[3], fnInput.boxes[1], fnInput.boxes[2]>>

\* C27: the output of suppression holds no two detections of the same label
\* whose IoU is greater than iouThreshold, and suppression of its own output at
\* the same threshold returns that output unchanged.  (Every candidate box
\* here has a positive area, so every IoU is a defined number.)
C27_NoOverlapIdempotent ==
    NmsReturned =>
        /\ \A i \in 1..Len(fnOutput), j \in 1..Len(fnOutput) :
              (i # j /\ fnOutput[i].label = fnOutput[j].label) =>
                ~NumGreater(CalculateIoU(fnOutput[i].box, fnOutput[j].box),
                            fnInput.iouThreshold)
        /\ NonMaxSuppression(fnOutput, fnInput.iouThreshold) = fnOutput

\* of three candidates of one label the middle box, overlapping both others,
\* was discarded by the first and the two outer boxes were kept
C27_Witness ==
    /\ NmsReturned
    /\ Len(fnInput.boxes) = 3 /\ Len(fnOutput) = 2
    /\ \A i \in 1..3 : fnInput.boxes[i].label = "person"
    /\ fnOutput[1].box = IntBox(0, 0, 8, 1) /\ fnOutput[2].box = IntBox(4, 0, 8, 1)
    /\ \E i \in 1..3 : fnInput.boxes[i].box = IntBox(2, 0, 8, 1)

\* ------------------------------------------------- claims on postprocess

PostReturned == fnStage = "returned"
\* the raw tensor of the call, when the engine returned one
HasTensor == Len(fnInput.output) > 0
RowCount == fnInput.output[1].dims[2]
RowWidth == fnInput.output[1].dims[3]
\* objectness and class scores of row i, in units of 1 / ScoreUnit
RowObjectness(i) == fnInput.output[1].data[i * RowWidth + 5]
RowScores(i) == {fnInput.output[1].data[i * RowWidth + j + 1] : j \in 5..(RowWidth - 1)}
SetMax(S) == CHOOSE m \in S : \A v \in S : m >= v
\* objectness x class score v of row i
Combined(i, v) ==
    NumMul(Float32(RowObjectness(i), ScoreUnit), Float32(v, ScoreUnit))

\* C14: the label of every detection postprocess returns is a member of
\* modelConfig.classNames and never undefined, whatever the number of rows and
\* the row width dims[2] of the raw output.
C14_LabelInClassNames ==
    PostReturned =>
        \A k \in 1..Len(fnOutput.returned) :
           fnOutput.returned[k].label \in Range(ClassNames)

\* C15: every detection postprocess emits has non-negative box width and
\* height.
C15_NonNegativeSize ==
    PostReturned =>
        \A k \in 1..Len(fnOutput.results) :
           /\ NumLeq(Zero(0), fnOutput.results[k].box[3])
           /\ NumLeq(Zero(0), fnOutput.results[k].box[4])

\* row i is one the claim says is emitted at the threshold passed in
RowEmits(i) ==
    /\ NumGreater(Float32(RowObjectness(i), ScoreUnit), fnInput.confidenceThreshold)
    /\ \E v \in RowScores(i) :
          NumGreater(Combined(i, v), fnInput.confidenceThreshold)

\* objectness x maximum class score of the rows from i on that are emitted
RECURSIVE EmittedConfidences(_)
EmittedConfidences(i) ==
    IF i >= RowCount THEN <<>>
    ELSE (IF RowEmits(i) THEN <<Combined(i, SetMax(RowScores(i)))>> ELSE <<>>)
         \o EmittedConfidences(i + 1)

\* C20: postprocess emits a candidate for a row if and only if
\* objectness > threshold and objectness x maximum class score > threshold, and
\* the candidate's confidence is objectness x maximum class score: the
\* confidences of the candidates are, row by row, those of the rows that pass.
C20_EmitsIffAboveThreshold ==
    PostReturned =>
        IF HasTensor
        THEN [k \in 1..Len(fnOutput.results) |-> fnOutput.results[k].confidence]
               = EmittedConfidences(0)
        ELSE fnOutput.results = <<>>

\* one row with objectness 0.875 and a single class score 0.875 at threshold
\* 0.45 gave exactly one candidate, of confidence 0.765625 = 49 / 64
C20_Witness ==
    /\ PostReturned
    /\ HasTensor
    /\ fnInput.confidenceThreshold = Hundredths(ScoreThreshold)
    /\ fnInput.output[1].dims = <<1, 1, 6>>
    /\ RowObjectness(0) = 56 /\ RowScores(0) = {56}
    /\ Len(fnOutput.results) = 1
    /\ fnOutput.results[1].confidence = Float32(49, 64)

\* the rows from i on that are emitted, by index
RECURSIVE EmittedRows(_)
EmittedRows(i) ==
    IF i >= RowCount THEN <<>>
    ELSE (IF RowEmits(i) THEN <<i>> ELSE <<>>) \o EmittedRows(i + 1)
\* field f (0 = x, 1 = y, 2 = w, 3 = h) of row i
RowField(i, f) == Float32(fnInput.output[1].data[i * RowWidth + f + 1], CoordUnit)
\* v * imageDimension / modelInputDimension
Rescaled(v, imgDim, modelDim) ==
    NumMul(v, NumDiv(NumFromInt(imgDim), NumFromInt(modelDim)))

\* C21: postprocess takes a row's centre (x, y) and size (w, h) as model-input
\* pixels and rescales them by imageDimension / modelInputDimension per axis:
\* the box is (x*imgW/modelW - (w*imgW/modelW)/2, y*imgH/modelH -
\* (h*imgH/modelH)/2, w*imgW/modelW, h*imgH/modelH).
C21_BoxRescaledFromModelPixels ==
    (PostReturned /\ HasTensor) =>
        LET rows == EmittedRows(0)
            imgW == fnInput.size[1]
            imgH == fnInput.size[2]
            modelW == InputShape[4]
            modelH == InputShape[3]
        IN  \A k \in 1..Len(rows) :
              LET box == fnOutput.results[k].box
                  i == rows[k]
                  x == Rescaled(RowField(i, 0), imgW, modelW)
                  y == Rescaled(RowField(i, 1), imgH, modelH)
                  w == Rescaled(RowField(i, 2), imgW, modelW)
                  h == Rescaled(RowField(i, 3), imgH, modelH)
              IN  /\ k <= Len(fnOutput.results)
                  /\ box[3] = w
                  /\ box[4] = h
                  /\ box[1] = NumSub(x, NumDiv(w, NumFromInt(2)))
                  /\ box[2] = NumSub(y, NumDiv(h, NumFromInt(2)))

\* -------------------------------------------------- claims on preprocess

PreReturned == fnStage = "returned"
FrameWidth == fnInput.imageData.width
FrameHeight == fnInput.imageData.height
TargetHeight == fnInput.shape[3]
TargetWidth == fnInput.shape[4]
\* the scalars of the call
CallScalars == Scalars(fnInput.imageData, fnInput.shape)
\* the value of plane c at target pixel (x, y) in the returned buffer
Plane(c, x, y) ==
    fnOutput.inputData[c * TargetHeight * TargetWidth + y * TargetWidth + x + 1]
\* byte c of the source pixel (origX, origY)
SourceByte(origX, origY, c) ==
    fnInput.imageData.data[(NumToInt(origY) * FrameWidth + NumToInt(origX)) * 4
                           + c + 1]
\* the element that holds b / 255.0
Element(b) == Fround(NumDiv(NumFromInt(b), NumFromInt(255)))

\* C17: preprocessing a frame of width 0 or height 0 fails with an error and
\* returns no tensor.
C17_ZeroSizedFrameFails ==
    (PreReturned /\ (FrameWidth = 0 \/ FrameHeight = 0)) => fnOutput.threw

\* C18: for a frame of positive width and height with bytes in 0..255, every
\* value of the output buffer lies in [0, 1], and every back-mapped source
\* pixel lies inside the frame: 0 <= origX < imgWidth, 0 <= origY < imgHeight.
C18_ValuesInUnitRange ==
    (PreReturned /\ FrameWidth > 0 /\ FrameHeight > 0) =>
        /\ \A k \in 1..Len(fnOutput.inputData) :
              /\ NumLeq(Zero(0), fnOutput.inputData[k])
              /\ NumLeq(fnOutput.inputData[k], NumFromInt(1))
        /\ LET s == CallScalars
           IN  \A x \in 0..(TargetWidth - 1), y \in 0..(TargetHeight - 1) :
                 IsInside(s, x, y) =>
                   /\ NumLeq(Zero(0), OrigX(s, x))
                   /\ NumLess(OrigX(s, x), NumFromInt(FrameWidth))
                   /\ NumLeq(Zero(0), OrigY(s, y))
                   /\ NumLess(OrigY(s, y), NumFromInt(FrameHeight))

\* a 4 x 3 frame was preprocessed for a 3 x 3 target: the ratio is 3/4, the
\* offset in y is 1/2, there is padding, and the last pixel row was read
C18_Witness ==
    /\ PreReturned
    /\ FrameWidth = 4 /\ FrameHeight = 3
    /\ TargetWidth = 3 /\ TargetHeight = 3
    /\ \E x \in 0..(TargetWidth - 1), y \in 0..(TargetHeight - 1) :
          /\ IsInside(CallScalars, x, y)
          /\ OrigY(CallScalars, y) = NumFromInt(FrameHeight - 1)
    /\ \E x \in 0..(TargetWidth - 1), y \in 0..(TargetHeight - 1) :
          ~IsInside(CallScalars, x, y)
    /\ \E k \in 1..Len(fnOutput.inputData) :
          NumLess(Zero(0), fnOutput.inputData[k])

\* C19: for a frame of the target's width and height the scale is 1 and the
\* offsets are 0, no target pixel is padding, and target pixel (x, y) has the
\* red, green and blue of source pixel (x, y).
C19_ExactSizeIsIdentity ==
    (PreReturned /\ FrameWidth = TargetWidth /\ FrameHeight = TargetHeight) =>
        LET s == CallScalars
        IN  /\ s.resizeRatio = NumFromInt(1)
            /\ s.offsetX = Zero(0)
            /\ s.offsetY = Zero(0)
            /\ \A x \in 0..(TargetWidth - 1), y \in 0..(TargetHeight - 1) :
                  /\ IsInside(s, x, y)
                  /\ \A c \in 0..2 :
                        Plane(c, x, y)
                          = Element(fnInput.imageData.data[
                                      (y * FrameWidth + x) * 4 + c + 1])

\* a 3 x 2 frame was preprocessed for a 3 x 2 target
C19_Witness ==
    /\ PreReturned
    /\ FrameWidth = 3 /\ TargetWidth = 3
    /\ FrameHeight = 2 /\ TargetHeight = 2
    /\ Plane(1, 2, 1) = Element(fnInput.imageData.data[(1 * 3 + 2) * 4 + 1 + 1])
    /\ Plane(0, 0, 0) # Plane(0, 1, 0)

\* C24: the preprocess output is planar: the buffer has exactly 3 * H * W
\* values; the value at index c * H * W + y * W + x is channel c (0 red,
\* 1 green, 2 blue) of the source pixel that target pixel (x, y) maps back to,
\* never its alpha; and a target pixel outside the centred resized region has
\* 0 on all three planes.
C24_PlanarLayout ==
    PreReturned =>
        /\ Len(fnOutput.inputData) = 3 * TargetHeight * TargetWidth
        /\ LET s == CallScalars
           IN  \A x \in 0..(TargetWidth - 1), y \in 0..(TargetHeight - 1),
                  c \in 0..2 :
                 Plane(c, x, y) =
                   IF IsInside(s, x, y)
                   THEN Element(SourceByte(OrigX(s, x), OrigY(s, y), c))
                   ELSE Zero(0)

\* a 2 x 1 frame was preprocessed for a 3 x 2 target: half a row of padding
\* above and below, and the three planes of an inside pixel differ from each
\* other and from the alpha of their source pixel
C24_Witness ==
    /\ PreReturned
    /\ FrameWidth = 2 /\ FrameHeight = 1
    /\ TargetWidth = 3 /\ TargetHeight = 2
    /\ \E x \in 0..2, y \in 0..1 :
          /\ IsInside(CallScalars, x, y)
          /\ Plane(0, x, y) # Plane(1, x, y) /\ Plane(1, x, y) # Plane(2, x, y)
          /\ OrigX(CallScalars, x) = NumFromInt(1)
          /\ Plane(2, x, y) # Element(fnInput.imageData.data[8])
    /\ \E x \in 0..2, y \in 0..1 :
          /\ ~IsInside(CallScalars, x, y)
          /\ \A c \in 0..2 : Plane(c, x, y) = Zero(0)

\* ------------------------------------------------ claims on calculateIoU

\* C16: calculateIoU(b, b) = 1 for every box b, boxes of zero width or height
\* included.
C16_IdenticalBoxesIoUOne ==
    ( /\ fnStage = "returned"
      /\ fnInput[1] = fnInput[2]
      /\ NumLeq(Zero(0), fnInput[1][3]) /\ NumLeq(Zero(0), fnInput[1][4]) )
    => fnOutput = NumFromInt(1)

\* C23: calculateIoU guards against division by zero: for two boxes whose
\* union area is 0 it returns 0, never the result of a division by zero.
C23_ZeroUnionGivesZero ==
    ( /\ fnStage = "returned"
      /\ \A b \in {fnInput[1], fnInput[2]} :
            /\ NumLeq(Zero(0), b[3]) /\ NumLeq(Zero(0), b[4])
            /\ IsZero(NumMul(b[3], b[4])) )
    => IsZero(fnOutput)

\* --------------------------------------------------- claims on the page

\* C28: whenever startWebcam acquires a camera stream, the page eventually
\* reaches webcamActive = true; it cannot stay in the "Webcam access required"
\* state for ever after a stream was granted.
C28_StreamLeadsToActive == (page.event = "granted") ~> page.webcamActive

====
